---- MODULE Spec2Model ----
(***************************************************************************)
(* Mission execution queue of OPS-Agent-Desktop.                           *)
(*                                                                         *)
(*   MissionService  (backend/src/missions/missionService.ts)              *)
(*   BrowserAgent    (executeMission and its six pipeline stages)          *)
(*   missionQueue / missionWorker / addMissionToQueue                      *)
(*                   (backend/src/queue/missionQueue.ts, BullMQ)           *)
(*   MissionRepository.addStep (backend/src/repositories/...)              *)
(*   getQueueStatus / getJobDetails, shutdownQueue and the signal          *)
(*                   handlers (missionQueue.ts, backend/src/index.ts)      *)
(*                                                                         *)
(* One action per event-loop turn of the code: the synchronous code        *)
(* between two awaits is one action.  The two places where the code calls  *)
(* updateStatus with a terminal status and then addStep are split in two   *)
(* actions so that the order of the two store calls is visible.            *)
(***************************************************************************)
EXTENDS Integers, Sequences, FiniteSets, TLC

\* ------------------------------------------------------------------ bounds
\* config.maxConcurrentMissions (an environment setting; the default is 3).
MaxConcurrentMissions == 2
\* Spec: number of missions POST /missions creates in a run, and number of
\* failures (chromium.launch, newPage or a stage throwing) in a run.
NumMissions == 3
MaxFaults == 1
\* SpecRetry: the same two bounds, fewer missions and more failures.
RetryMissions == 2
RetryFaults == 3
\* SpecFair: missions and failures of a run.
FairMissions == 1
FairFaults == 3
\* SpecClock: spans of config.missionTimeoutMs a job is followed for.
MaxTicks == 2
\* SpecRepo: missions, concurrent callers of MissionRepository.addStep, rows.
RepoMissions == 2
RepoCallers == 2
RepoRows == 4
\* SpecAuth: the missions the HTTP surface may create.
AuthMissions == 2
\* SpecHook: the mission ids the component is rendered with.
HookMissions == 2
\* SpecService: missions in the store and steps per mission.
ServiceMissions == 1
ServiceSteps == 1
\* The polling-only hook: the mission ids it is given, the interval's fetches.
PollMissions == 2
MaxPolls == 4
\* refreshAccessToken: the calls in flight at once, the rows of refreshToken.
RefreshCalls == 2
MaxRefreshTokens == 3
\* BrowserAgent called directly: the missions of the store, the executeMission
\* calls in flight at once, the pages opened in a run.
AgentMissions == 1
AgentCalls == 2
MaxPages == 2
\* WebSocketServer: the sockets that connect in a run.
MaxSockets == 4

\* -------------------------------------------------------- program constants
\* defaultJobOptions.attempts
Attempts == 3
\* defaultJobOptions.backoff.delay, in milliseconds
BackoffDelay == 2000

VARIABLES
    missions,   \* MissionService.missions: mission id -> Mission (ids are 1..n)
    jobs,       \* the jobs BullMQ holds for queue 'missions', in creation order
    wait,       \* BullMQ's wait list: indexes into jobs, FIFO
    browser,    \* BrowserAgent.browser # null
    addOutcome, \* how the latest addMissionToQueue call ended
    faults,     \* number of failures injected so far
    limit,      \* the bounds of the run: [missions, faults]; never changes
    dbSteps,    \* MissionRepository: rows of table missionStep, in insert order
    callers,    \* MissionRepository.addStep calls in flight
    reader,     \* the getJobDetails / getQueueStatus call in flight
    proc,       \* the backend process: "running" or "exited"
    elapsed,    \* job index -> time units the job has spent active so far
    events,     \* what WebSocketServer has emitted to mission rooms, in order
    http,       \* the HTTP request Express is dispatching, and its response
    owners,     \* mission id -> the user whose request created the mission
    hook,       \* the state of one mounted useMission hook (frontend)
    clock,      \* whether the run follows the time delayed jobs wait
    call,       \* the latest direct call of a MissionService method, and how it ended
    poller,     \* the state of one mounted polling-only useMission hook
    auth,       \* AuthService: the refreshToken table and the refreshAccessToken calls
    agent,      \* BrowserAgent: the open pages and the executeMission calls in flight
    ws          \* WebSocketServer.userSockets and the sockets Socket.IO has delivered

vars ==
    <<missions, jobs, wait, browser, addOutcome, faults, limit, dbSteps, callers,
      reader, proc, elapsed, events, http, owners, hook, clock, call, poller, auth, agent, ws>>
repoVars == <<dbSteps, callers>>
\* What the queue's actions leave alone besides the variables they name.
others == <<limit, dbSteps, callers, reader, proc, elapsed, events, http, owners, hook, clock, call, poller, auth, agent, ws>>
\* The variables of the queue, the worker and the mission store.
queueVars == <<missions, jobs, wait, browser, addOutcome, faults>>

\* ------------------------------------------------------------ MissionService
Terminal == {"COMPLETED", "FAILED"}

\* createMission: status PENDING, no steps, summaries absent.
NewMission ==
    [status |-> "PENDING", steps |-> <<>>,
     rcaSummary |-> "nil", remediationProposal |-> "nil"]

Step(type, message) ==
    [type |-> type, message |-> message, screenshotPath |-> <<>>]

\* addStep with a screenshotPath.  A string is the sequence of its parts; the
\* empty sequence stands for undefined (and for '', falsy alike).
StepWithScreenshot(type, message, screenshotPath) ==
    [type |-> type, message |-> message, screenshotPath |-> screenshotPath]

\* addStep that puts the step in front of the log (unshift for push).
AddStepInFront(ms, id, step) == [ms EXCEPT ![id].steps = <<step>> \o @]

\* addStep: pushes the step; no check of the mission's status.
AddStep(ms, id, step) == [ms EXCEPT ![id].steps = Append(@, step)]

\* An updateStatus that writes the status of every mission of the store.
UpdateStatusOfAll(ms, id, status) ==
    [m \in DOMAIN ms |-> [ms[m] EXCEPT !.status = status]]

\* updateStatus: assigns the status; no check of the transition.
UpdateStatus(ms, id, status) == [ms EXCEPT ![id].status = status]

SetRCASummary(ms, id) == [ms EXCEPT ![id].rcaSummary = "set"]

SetRemediationProposal(ms, id) == [ms EXCEPT ![id].remediationProposal = "set"]

\* An if (!mission) that never fires.
MissionFoundAlways(ms, id) == TRUE

\* this.missions.get(missionId) returned a mission.
MissionFound(ms, id) == id \in DOMAIN ms

NoCall == [op |-> "none", id |-> 0, outcome |-> "none"]

\* How a call of a method that writes a mission ends: it throws
\* Error('Mission <id> not found') before it writes, or returns.
WriteOutcome(ms, id) == IF MissionFound(ms, id) THEN "returned" ELSE "notFound"

\* ---------------------------------------------------------- WebSocketServer
\* emitMissionStep: io.to('mission:<id>').emit('mission:step', step).
EmitMissionStep(ev, id, step) ==
    Append(ev, [room |-> id, name |-> "mission:step", data |-> step])

\* emitMissionStatus: io.to('mission:<id>').emit('mission:status', ...).
EmitMissionStatus(ev, id, status) ==
    Append(ev, [room |-> id, name |-> "mission:status", data |-> status])

\* Neither MissionService nor the worker nor BrowserAgent calls an emitter
\* (and nothing calls initializeWebSocketServer): no action changes events.

\* --------------------------------------------------------------- BullMQ jobs
\* A job as Queue.add creates it.  pc is where the processor invocation of an
\* active job stands; runs counts the executeMission calls made for the job
\* and failedRun is the run in which a stage threw (0: none) - both only
\* record history.
NewJob(id) ==
    [id |-> id, state |-> "waiting", attemptsMade |-> 0, progress |-> 0,
     pc |-> "idle", runs |-> 0, failedRun |-> 0, delay |-> 0, waited |-> 0]

JobExists(js, id) == \E k \in DOMAIN js : js[k].id = id

\* Queue.add that adds a job whatever ids the queue holds.
AddJobAlways(js, id) == Append(js, NewJob(id))

\* Queue.add with opts.jobId: a job whose id is already in the queue is not
\* added again.
AddJob(js, id) == IF JobExists(js, id) THEN js ELSE Append(js, NewJob(id))

Active(js) == {k \in DOMAIN js : js[k].state = "active"}

\* A worker that takes jobs whatever number it is processing.
NoSlotLimit(js) == TRUE

\* Worker option concurrency: config.maxConcurrentMissions || 3.
WorkerHasFreeSlot(js) == Cardinality(Active(js)) < MaxConcurrentMissions

\* ----------------------------------------------------------- authMiddleware
\* The enum Role of the Prisma schema.
Roles == {"ADMIN", "OPERATOR", "VIEWER"}

Users == {"u1", "u2"}

\* The access tokens authService.verifyAccessToken accepts, each with the
\* payload it returns for it.
AccessTokens ==
    {[jwt |-> "jwt-" \o u \o "-" \o r, payload |-> [userId |-> u, role |-> r]] :
        u \in Users, r \in Roles}

\* A token verifyAccessToken rejects (bad signature, expired).
ExpiredToken == "jwt-expired"

\* req.user before requireAuth has set it.
NoUser == [userId |-> "none", role |-> "none"]

\* verifyAccessToken throwing.
Throws == [userId |-> "throws", role |-> "throws"]

\* A header value is the sequence of its characters; a token counts as one
\* character.
VerifyAccessToken(token) ==
    IF \E t \in AccessTokens : token = <<t.jwt>>
    THEN (CHOOSE t \in AccessTokens : token = <<t.jwt>>).payload
    ELSE Throws

Bearer == <<"B", "e", "a", "r", "e", "r", " ">>

\* String.prototype.startsWith and String.prototype.substring(from).
StartsWith(s, prefix) ==
    Len(s) >= Len(prefix) /\ SubSeq(s, 1, Len(prefix)) = prefix

Substring(s, from) == SubSeq(s, from + 1, Len(s))

\* The Authorization headers a request may carry; <<>> is no header at all.
\* One valid token is also sent in the wrong case, after two spaces and bare.
Authorizations ==
    LET tokens == {t.jwt : t \in AccessTokens} \cup {ExpiredToken}
        t == "jwt-u1-OPERATOR"
    IN {<<>>, Bearer}
       \cup {Bearer \o <<tok>> : tok \in tokens}
       \cup {<<"b", "e", "a", "r", "e", "r", " ", t>>, Bearer \o <<" ", t>>, <<t>>}

\* The middleware and handler Express runs for a route, in order.  "guarded"
\* is a route registered as (requireAuth, requireRole(...allowed), handler);
\* routes.ts registers POST /missions and GET /missions/:id with their handler
\* alone and no DELETE route, so that Express's final handler answers it.
RouteChain(route) ==
    CASE route = "guarded" -> <<"requireAuth", "requireRole", "handler">>
      [] route = "POST /missions" -> <<"handler">>
      [] route = "GET /missions/:id" -> <<"handler">>
      [] route = "GET /missions/:id/stream" -> <<"handler">>
      [] route = "DELETE /missions/:id" -> <<"finalhandler">>

NoRequest ==
    [route |-> "none", id |-> 0, prompt |-> FALSE, allowed |-> {},
     authorization |-> <<>>, chain |-> <<>>, user |-> NoUser, sent |-> <<>>,
     reached |-> FALSE, latestScreenshot |-> <<>>, missionsAtCall |-> 0,
     jobsAtCall |-> 0]

\* res.status(status).json(body)
Respond(h, status, body) ==
    [h EXCEPT !.sent = Append(@, [status |-> status, body |-> body])]

\* next()
CallNext(h) == [h EXCEPT !.chain = Tail(@)]

\* Returning without calling next(): Express runs nothing more for the request.
EndChain(h) == [h EXCEPT !.chain = <<>>]

\* ----------------------------------------------------------------- useMission
\* The hook before it is given a mission: the initial values of its state and
\* refs.  socket is the state of the Socket.IO socket of socketRef ("none":
\* no socket), polling is pollingIntervalRef.current # null, fetching says
\* that a fetchMissionStream call is awaiting its response, and status is
\* mission?.status.
Unmounted ==
    [missionId |-> 0, socket |-> "none", usePollingFallback |-> FALSE,
     polling |-> FALSE, fetching |-> FALSE, status |-> "none"]

MissionStatuses == {"PENDING", "RUNNING", "COMPLETED", "FAILED"}

\* The polling-only useMission before it is given a mission.  interval says
\* that the setInterval of the polling effect is set, fetching is the mission
\* whose fetchMissionStream call awaits its response (0: none), status is
\* mission?.status and statusOf the mission that status was fetched for, and
\* polls counts the fetches the interval has issued.
NotPolling ==
    [missionId |-> 0, interval |-> FALSE, fetching |-> 0, status |-> "none",
     statusOf |-> 0, polls |-> 0]

\* ---------------------------------------------------------------- AuthService
\* A row of table refreshToken as generateTokens creates it; granted counts
\* the refreshAccessToken calls that returned new tokens for it.
NewRefreshToken == [revoked |-> FALSE, granted |-> 0]

RefreshIdle == [pc |-> "idle", token |-> 0]

\* After a login: one refresh token is stored, no call is in flight.
NoRefresh ==
    [tokens |-> <<NewRefreshToken>>, calls |-> [c \in 1..RefreshCalls |-> RefreshIdle]]

\* --------------------------------------------------------------- BrowserAgent
\* An executeMission call: where it stands, its missionId, the page it opened
\* (pages are numbered as they are opened; 0: none) and whether an error is
\* on its way to the caller.
AgentIdle == [pc |-> "idle", id |-> 0, page |-> 0, throws |-> FALSE]

\* The agent with its browser launched: no page open, no call in flight.
NoAgent ==
    [open |-> {}, opened |-> 0, runs |-> [c \in 1..AgentCalls |-> AgentIdle]]

\* ------------------------------------------------- WebSocketServer.userSockets
\* userSockets is a Map: a function from the user ids that are its keys to
\* sets of socket ids.  sockets are the sockets Socket.IO has delivered with
\* a 'connection' event, in order; a socket's id is its position.
NoSockets == [userSockets |-> <<>>, sockets |-> <<>>]

\* --------------------------------------------------------------------- Init
\* Mission ids and job indexes of a run (an action on one that does not exist
\* is disabled).
Ids == 1..(NumMissions + RetryMissions)

Idle == [pc |-> "idle", missionId |-> 0, sequenceNumber |-> 0]

\* position: null of getJobPosition / getJobDetails.
NoPosition == 0

\* No getJobDetails or getQueueStatus call in flight.
ReaderIdle ==
    [op |-> "none", pc |-> "idle", jobId |-> 0, state |-> "none",
     position |-> NoPosition, waiting |-> 0, active |-> 0, completed |-> 0,
     failed |-> 0, delayed |-> 0, jobsAtCall |-> 0]

Start ==
    /\ missions = <<>>
    /\ jobs = <<>>
    /\ wait = <<>>
    /\ browser = FALSE
    /\ addOutcome = "none"
    /\ faults = 0
    /\ dbSteps = <<>>
    /\ callers = [c \in 1..RepoCallers |-> Idle]
    /\ reader = ReaderIdle
    /\ proc = "running"
    /\ elapsed = [k \in Ids |-> 0]
    /\ events = <<>>
    /\ http = NoRequest
    /\ owners = <<>>
    /\ hook = Unmounted
    /\ call = NoCall
    /\ poller = NotPolling
    /\ auth = NoRefresh
    /\ agent = NoAgent
    /\ ws = NoSockets

Init ==
    /\ Start
    /\ limit = [missions |-> NumMissions, faults |-> MaxFaults]
    /\ clock = FALSE

InitRetry ==
    /\ Start
    /\ limit = [missions |-> RetryMissions, faults |-> RetryFaults]
    /\ clock = FALSE

\* addMissionToQueue(missionId, prompt): missionQueue.add with jobId =
\* missionId, then returns the job; it throws nothing of its own.
\* addOutcome is how the call ended, seen by its caller: a job was added, or
\* the call returned with nothing added.  No path of the function throws.
Enqueue(id) ==
    /\ jobs' = AddJob(jobs, id)
    /\ wait' = IF Len(jobs') > Len(jobs) THEN Append(wait, Len(jobs')) ELSE wait
    /\ addOutcome' = IF Len(jobs') > Len(jobs) THEN "added" ELSE "ignored"

\* POST /missions: createMission, then addMissionToQueue(mission.id).
PostMissions ==
    /\ proc = "running"
    /\ Len(missions) < limit.missions
    /\ missions' = Append(missions, NewMission)
    /\ Enqueue(Len(missions) + 1)
    /\ UNCHANGED <<browser, faults, others>>

\* addMissionToQueue called again for a mission that was already enqueued.
AddMissionToQueue(id) ==
    /\ proc = "running"
    /\ id \in DOMAIN missions
    /\ Enqueue(id)
    /\ UNCHANGED <<missions, browser, faults, others>>

\* ------------------------------------------------------------- BrowserAgent
\* The stages executeMission awaits, in order.
Stages ==
    <<"navigateToDashboard", "analyzeDashboard", "navigateToLogs",
      "performRCA", "proposeRemediation", "executeApprovedAction">>

StageSet == {Stages[i] : i \in DOMAIN Stages}

StageIndex(stage) == CHOOSE i \in DOMAIN Stages : Stages[i] = stage

\* The step a stage adds before its first await.
BeginStep(stage) ==
    CASE stage = "navigateToDashboard" -> Step("OBSERVATION", "Opening Ops Dashboard...")
      [] stage = "analyzeDashboard" -> Step("OBSERVATION", "Analyzing dashboard metrics and alerts...")
      [] stage = "navigateToLogs" -> Step("OBSERVATION", "Navigating to logs page...")
      [] stage = "performRCA" -> Step("RCA", "Invoking AutoRCA-Core...")
      [] stage = "proposeRemediation" -> Step("REMEDIATION", "Consulting Secure-MCP-Gateway...")
      [] stage = "executeApprovedAction" -> Step("ACTION", "Gateway approval received (simulated)")

\* captureScreenshot(page, missionId, label): the file name it returns, of
\* which the label is the part that differs within a mission.
CaptureScreenshot(label) == <<label>>

\* The step a stage adds after its last await.  executeApprovedAction adds
\* one of two ACTION steps, by whether the page shows a "Restart Service"
\* button; the mock-app's page does, so the step with the screenshot is added.
EndStep(stage) ==
    CASE stage = "navigateToDashboard" ->
            StepWithScreenshot("OBSERVATION", "Dashboard loaded",
                               CaptureScreenshot("dashboard"))
      [] stage = "analyzeDashboard" -> Step("OBSERVATION", "Detected: 500 errors on checkout service")
      [] stage = "navigateToLogs" ->
            StepWithScreenshot("OBSERVATION", "Logs page loaded",
                               CaptureScreenshot("logs"))
      [] stage = "performRCA" -> Step("RCA", "RCA complete")
      [] stage = "proposeRemediation" -> Step("REMEDIATION", "Remediation plan generated")
      [] stage = "executeApprovedAction" ->
            StepWithScreenshot("ACTION", "Service restart initiated successfully",
                               CaptureScreenshot("action-complete"))

\* performRCA and proposeRemediation await only a timer: they cannot throw.
CanFail(stage) == stage \notin {"performRCA", "proposeRemediation"}

\* proposeRemediation without its setRemediationProposal call.
StageFieldsNoProposal(ms, id, stage) ==
    IF stage = "performRCA" THEN SetRCASummary(ms, id) ELSE ms

\* What a stage writes to the mission besides its steps.
StageFields(ms, id, stage) ==
    CASE stage = "performRCA" -> SetRCASummary(ms, id)
      [] stage = "proposeRemediation" -> SetRemediationProposal(ms, id)
      [] OTHER -> ms

FailureStep == Step("OBSERVATION", "Mission failed")

CompletedStep == Step("OBSERVATION", "Mission completed successfully")

\* ------------------------------------------------------------ missionWorker
\* Job k's processor invocation stands at pc (in a process that is alive).
AtPc(k, pc) ==
    /\ proc = "running"
    /\ k \in DOMAIN jobs /\ jobs[k].state = "active" /\ jobs[k].pc = pc

\* A worker that takes the job added to the wait list last.
MoveToActiveLast(k) ==
    /\ proc = "running"
    /\ wait # <<>>
    /\ k = wait[Len(wait)]
    /\ WorkerHasFreeSlot(jobs)
    /\ wait' = SubSeq(wait, 1, Len(wait) - 1)
    /\ jobs' = [jobs EXCEPT ![k].state = "active", ![k].pc = "start"]
    /\ UNCHANGED <<missions, browser, addOutcome, faults, others>>

\* The worker takes the oldest waiting job when it has a free slot.  (The
\* limiter, 10 starts per second, only delays this step.)
MoveToActive(k) ==
    /\ proc = "running"
    /\ wait # <<>>
    /\ k = Head(wait)
    /\ WorkerHasFreeSlot(jobs)
    /\ wait' = Tail(wait)
    /\ jobs' = [jobs EXCEPT ![k].state = "active", ![k].pc = "start"]
    /\ UNCHANGED <<missions, browser, addOutcome, faults, others>>

\* The processor: job.updateProgress(10), then executeMission is called;
\* init() launches a browser when there is none, then newPage() is awaited.
ProcessorStart(k) ==
    /\ AtPc(k, "start")
    /\ jobs' = [jobs EXCEPT ![k].progress = 10,
                            ![k].pc = IF browser THEN "newPage" ELSE "init",
                            ![k].runs = @ + 1]
    /\ UNCHANGED <<missions, wait, browser, addOutcome, faults, others>>

\* The processor's catch: updateStatus(missionId, FAILED), then rethrow.
WorkerCatch(k) ==
    /\ missions' = UpdateStatus(missions, jobs[k].id, "FAILED")
    /\ jobs' = [jobs EXCEPT ![k].pc = "rethrown"]

\* init(): chromium.launch resolves.
InitOk(k) ==
    /\ AtPc(k, "init")
    /\ browser' = TRUE
    /\ jobs' = [jobs EXCEPT ![k].pc = "newPage"]
    /\ UNCHANGED <<missions, wait, addOutcome, faults, others>>

\* chromium.launch rejects: executeMission throws before its try block.
InitFail(k) ==
    /\ AtPc(k, "init")
    /\ faults < limit.faults
    /\ faults' = faults + 1
    /\ WorkerCatch(k)
    /\ UNCHANGED <<wait, browser, addOutcome, others>>

\* browser.newPage() resolves: the try block starts with
\* updateStatus(RUNNING) and navigateToDashboard's first step.
NewPageOk(k) ==
    /\ AtPc(k, "newPage")
    /\ missions' = AddStep(UpdateStatus(missions, jobs[k].id, "RUNNING"),
                           jobs[k].id, BeginStep(Stages[1]))
    /\ jobs' = [jobs EXCEPT ![k].pc = Stages[1]]
    /\ UNCHANGED <<wait, browser, addOutcome, faults, others>>

\* browser.newPage() rejects: executeMission throws before its try block.
NewPageFail(k) ==
    /\ AtPc(k, "newPage")
    /\ faults < limit.faults
    /\ faults' = faults + 1
    /\ WorkerCatch(k)
    /\ UNCHANGED <<wait, browser, addOutcome, others>>

\* A stage's awaits resolve: its closing step, then either the next stage's
\* opening step or, after the last stage, updateStatus(COMPLETED).
StageOk(k) ==
    /\ proc = "running"
    /\ k \in DOMAIN jobs /\ jobs[k].state = "active" /\ jobs[k].pc \in StageSet
    /\ LET stage == jobs[k].pc
           id == jobs[k].id
           i == StageIndex(stage)
           ms == AddStep(StageFields(missions, id, stage), id, EndStep(stage))
       IN IF i < Len(Stages)
             THEN /\ missions' = AddStep(ms, id, BeginStep(Stages[i + 1]))
                  /\ jobs' = [jobs EXCEPT ![k].pc = Stages[i + 1]]
             ELSE /\ missions' = UpdateStatus(ms, id, "COMPLETED")
                  /\ jobs' = [jobs EXCEPT ![k].pc = "finalStep"]
    /\ UNCHANGED <<wait, browser, addOutcome, faults, others>>

\* After updateStatus(COMPLETED): addStep('Mission completed successfully').
FinalStep(k) ==
    /\ AtPc(k, "finalStep")
    /\ missions' = AddStep(missions, jobs[k].id, CompletedStep)
    /\ jobs' = [jobs EXCEPT ![k].pc = "close"]
    /\ UNCHANGED <<wait, browser, addOutcome, faults, others>>

\* executeMission's catch with the error rethrown to the caller.
ExecuteMissionCatchRethrows(k) ==
    /\ missions' = UpdateStatus(missions, jobs[k].id, "FAILED")
    /\ jobs' = [jobs EXCEPT ![k].pc = "rethrown",
                            ![k].failedRun = jobs[k].runs]

\* executeMission's catch: updateStatus(FAILED); the error goes no further.
ExecuteMissionCatch(k) ==
    /\ missions' = UpdateStatus(missions, jobs[k].id, "FAILED")
    /\ jobs' = [jobs EXCEPT ![k].pc = "catchStep",
                            ![k].failedRun = jobs[k].runs]

\* A stage throws.
StageFail(k) ==
    /\ proc = "running"
    /\ k \in DOMAIN jobs /\ jobs[k].state = "active" /\ jobs[k].pc \in StageSet
    /\ CanFail(jobs[k].pc)
    /\ faults < limit.faults
    /\ faults' = faults + 1
    /\ ExecuteMissionCatch(k)
    /\ UNCHANGED <<wait, browser, addOutcome, others>>

\* The catch without its addStep.
CatchStepSilent(k) ==
    /\ AtPc(k, "catchStep")
    /\ jobs' = [jobs EXCEPT ![k].pc = "close"]
    /\ UNCHANGED <<missions, wait, browser, addOutcome, faults, others>>

\* After updateStatus(FAILED) in the catch: addStep('Mission failed: ...').
CatchStep(k) ==
    /\ AtPc(k, "catchStep")
    /\ missions' = AddStep(missions, jobs[k].id, FailureStep)
    /\ jobs' = [jobs EXCEPT ![k].pc = "close"]
    /\ UNCHANGED <<wait, browser, addOutcome, faults, others>>

\* finally: page.close(); executeMission returns to the processor.
\* (page.close() is taken to resolve: Playwright resolves it also when the
\* page or the browser is already gone.)
ClosePage(k) ==
    /\ AtPc(k, "close")
    /\ jobs' = [jobs EXCEPT ![k].pc = "returned"]
    /\ UNCHANGED <<missions, wait, browser, addOutcome, faults, others>>

\* The processor returns: job.updateProgress(100), and BullMQ counts the
\* attempt and completes the job.
MoveToCompleted(k) ==
    /\ AtPc(k, "returned")
    /\ jobs' = [jobs EXCEPT ![k].progress = 100, ![k].state = "completed",
                            ![k].attemptsMade = @ + 1, ![k].pc = "idle"]
    /\ UNCHANGED <<missions, wait, browser, addOutcome, faults, others>>

\* A queue without retries: the job fails at the first thrown attempt.
MoveToFailedNoRetry(k) ==
    /\ AtPc(k, "rethrown")
    /\ jobs' = [jobs EXCEPT ![k].attemptsMade = @ + 1,
                            ![k].state = "failed", ![k].pc = "idle"]
    /\ UNCHANGED <<missions, wait, browser, addOutcome, faults, others>>

\* A queue that schedules a retry after every thrown attempt (no attempts
\* limit).
MoveToFailedAlwaysRetry(k) ==
    /\ AtPc(k, "rethrown")
    /\ jobs' = [jobs EXCEPT ![k].attemptsMade = @ + 1,
                            ![k].state = "delayed", ![k].pc = "idle"]
    /\ UNCHANGED <<missions, wait, browser, addOutcome, faults, others>>

\* A fixed backoff: the same delay after every attempt.
BackoffFixed(attemptsMade) == BackoffDelay

\* Backoffs.calculate for type 'exponential': 2^(attemptsMade - 1) * delay
\* milliseconds, attemptsMade counting the attempt that has just failed.
Backoff(attemptsMade) == 2^(attemptsMade - 1) * BackoffDelay

\* The processor threw: BullMQ counts the attempt and either schedules the
\* retry (delayed, exponential backoff) or, after attempt number Attempts,
\* fails the job.
MoveToFailed(k) ==
    /\ AtPc(k, "rethrown")
    /\ jobs' = [jobs EXCEPT
                  ![k].attemptsMade = @ + 1,
                  ![k].state = IF jobs[k].attemptsMade + 1 < Attempts
                                  THEN "delayed" ELSE "failed",
                  ![k].delay = IF jobs[k].attemptsMade + 1 < Attempts
                                  THEN Backoff(jobs[k].attemptsMade + 1) ELSE 0,
                  ![k].waited = 0,
                  ![k].pc = "idle"]
    /\ UNCHANGED <<missions, wait, browser, addOutcome, faults, others>>

\* A delayed job marked waiting without being put on the wait list.
PromoteDelayedLost(k) ==
    /\ proc = "running"
    /\ k \in DOMAIN jobs
    /\ jobs[k].state = "delayed"
    /\ jobs' = [jobs EXCEPT ![k].state = "waiting"]
    /\ UNCHANGED <<missions, wait, browser, addOutcome, faults, others>>

\* The backoff delay of a delayed job has passed: back to the wait list.
PromoteDelayed(k) ==
    /\ proc = "running"
    /\ k \in DOMAIN jobs
    /\ jobs[k].state = "delayed"
    /\ clock => jobs[k].waited >= jobs[k].delay
    /\ jobs' = [jobs EXCEPT ![k].state = "waiting", ![k].delay = 0,
                            ![k].waited = 0]
    /\ wait' = Append(wait, k)
    /\ UNCHANGED <<missions, browser, addOutcome, faults, others>>

\* In a run that follows time, BackoffDelay milliseconds pass: every delayed
\* job has waited that much longer.  (In the other runs any time may pass
\* between two steps, and a delayed job can be promoted at any moment.)
BackoffTick ==
    /\ proc = "running"
    /\ clock
    /\ \E k \in DOMAIN jobs :
          jobs[k].state = "delayed" /\ jobs[k].waited < jobs[k].delay
    /\ jobs' = [k \in DOMAIN jobs |->
                  IF jobs[k].state = "delayed" /\ jobs[k].waited < jobs[k].delay
                     THEN [jobs[k] EXCEPT !.waited = @ + BackoffDelay]
                     ELSE jobs[k]]
    /\ UNCHANGED <<missions, wait, browser, addOutcome, faults, others>>

\* -------------------------------------------------- MissionRepository.addStep
Rows(m) == SelectSeq(dbSteps, LAMBDA r : r.missionId = m)

Max(S) == CHOOSE x \in S : \A y \in S : y <= x

\* findFirst({where: {missionId}, orderBy: {sequenceNumber: 'desc'}}),
\* then (lastStep?.sequenceNumber || 0) + 1.
NextSequenceNumber(m) ==
    LET seqs == {dbSteps[i].sequenceNumber :
                    i \in {j \in DOMAIN dbSteps : dbSteps[j].missionId = m}}
    IN (IF seqs = {} THEN 0 ELSE Max(seqs)) + 1

InFlight == {c \in DOMAIN callers : callers[c].pc = "create"}

\* addStep up to its first await resolving: the last step is read and the
\* next sequence number computed from it.
RepoFindLast(c, m) ==
    /\ callers[c].pc = "idle"
    /\ Len(dbSteps) + Cardinality(InFlight) < RepoRows
    /\ callers' = [callers EXCEPT ![c] =
                     [pc |-> "create", missionId |-> m,
                      sequenceNumber |-> NextSequenceNumber(m)]]
    /\ UNCHANGED <<queueVars, limit, dbSteps, reader, proc, elapsed, events, http, owners, hook, clock, call, poller, auth, agent, ws>>

\* prisma.missionStep.create with the number computed before.
RepoCreate(c) ==
    /\ callers[c].pc = "create"
    /\ dbSteps' = Append(dbSteps, [missionId |-> callers[c].missionId,
                                   sequenceNumber |-> callers[c].sequenceNumber])
    /\ callers' = [callers EXCEPT ![c] = Idle]
    /\ UNCHANGED <<queueVars, limit, reader, proc, elapsed, events, http, owners, hook, clock, call, poller, auth, agent, ws>>

\* ------------------------------------------- getJobDetails / getQueueStatus
\* What a reader's action leaves alone.
readerOthers == <<queueVars, limit, dbSteps, callers, proc, elapsed, events, http, owners, hook, clock, call, poller, auth, agent, ws>>

\* Job ids a caller may ask for: those of the run and one no job has.
JobIds == 1..(RetryMissions + 1)

JobOf(id) == CHOOSE k \in DOMAIN jobs : jobs[k].id = id

\* missionQueue.getWaiting(): the waiting jobs, oldest first;
\* findIndex(job.id === jobId), then position === -1 ? null : position + 1.
PositionIn(w, id) ==
    IF \E i \in DOMAIN w : jobs[w[i]].id = id
       THEN CHOOSE i \in DOMAIN w : jobs[w[i]].id = id
       ELSE NoPosition

\* getXxxCount(): the number of jobs in one state.
CountIn(st) == Cardinality({k \in DOMAIN jobs : jobs[k].state = st})

\* getJobDetails(jobId) up to its first await resolving: missionQueue.getJob;
\* "if (!job) return null".
GetJobDetails(id) ==
    /\ proc = "running"
    /\ reader.pc = "idle"
    /\ reader' = IF JobExists(jobs, id)
                    THEN [ReaderIdle EXCEPT !.op = "getJobDetails",
                                            !.pc = "getState", !.jobId = id]
                    ELSE [ReaderIdle EXCEPT !.op = "getJobDetails",
                                            !.pc = "done", !.jobId = id,
                                            !.state = "notFound"]
    /\ UNCHANGED readerOthers

\* job.getState() resolves; position is null unless the state is waiting.
JobGetState ==
    /\ reader.pc = "getState"
    /\ LET st == jobs[JobOf(reader.jobId)].state
       IN reader' = [reader EXCEPT !.state = st,
                                   !.pc = IF st = "waiting" THEN "getWaiting"
                                                            ELSE "done"]
    /\ UNCHANGED readerOthers

\* getJobPosition(jobId): missionQueue.getWaiting() resolves.
GetJobPosition ==
    /\ reader.pc = "getWaiting"
    /\ reader' = [reader EXCEPT !.position = PositionIn(wait, reader.jobId),
                                !.pc = "done"]
    /\ UNCHANGED readerOthers

\* getQueueStatus(): five count queries are sent at once (Promise.all) and
\* Redis answers them one after the other, in the order sent; the first is
\* getWaitingCount.
GetWaitingCount ==
    /\ proc = "running"
    /\ reader.pc = "idle"
    /\ reader' = [ReaderIdle EXCEPT !.op = "getQueueStatus", !.pc = "active",
                                    !.waiting = CountIn("waiting"),
                                    !.jobsAtCall = Len(jobs)]
    /\ UNCHANGED readerOthers

GetActiveCount ==
    /\ reader.pc = "active"
    /\ reader' = [reader EXCEPT !.active = CountIn("active"),
                                !.pc = "completed"]
    /\ UNCHANGED readerOthers

GetCompletedCount ==
    /\ reader.pc = "completed"
    /\ reader' = [reader EXCEPT !.completed = CountIn("completed"),
                                !.pc = "failed"]
    /\ UNCHANGED readerOthers

GetFailedCount ==
    /\ reader.pc = "failed"
    /\ reader' = [reader EXCEPT !.failed = CountIn("failed"),
                                !.pc = "delayed"]
    /\ UNCHANGED readerOthers

\* The last count; getWorkers() changes nothing the result's counts show.
GetDelayedCount ==
    /\ reader.pc = "delayed"
    /\ reader' = [reader EXCEPT !.delayed = CountIn("delayed"),
                                !.pc = "done"]
    /\ UNCHANGED readerOthers

\* The call's result has been returned to the route.
ReaderReturn ==
    /\ reader.pc = "done"
    /\ reader' = ReaderIdle
    /\ UNCHANGED readerOthers

\* ------------------------------------------------------- process termination
\* SIGTERM or SIGINT arrives.  Node runs the signal's listeners one after the
\* other in the same turn: the listener of missionQueue.ts calls
\* shutdownQueue, which runs up to its first await (missionWorker.close() is
\* called and pending), and the listener of index.ts calls process.exit(0).
\* The process is gone before any await of shutdownQueue resolves; the jobs,
\* kept by Redis, stay as they are.
Sigterm ==
    /\ proc = "running"
    /\ proc' = "exited"
    /\ UNCHANGED <<queueVars, limit, dbSteps, callers, reader, elapsed, events, http, owners, hook, clock, call, poller, auth, agent, ws>>

\* ---------------------------------------------------------------------- time
\* A span of config.missionTimeoutMs passes while job k is active and its
\* processor is awaiting the browser or a timer.  Nothing in the worker or
\* in executeMission reads config.missionTimeoutMs or sets a timer for the
\* attempt, so the passing of time changes nothing but the clock.
Tick(k) ==
    /\ proc = "running"
    /\ k \in DOMAIN jobs
    /\ jobs[k].state = "active"
    /\ jobs[k].pc \in {"init", "newPage", "close"} \cup StageSet
    /\ elapsed[k] < MaxTicks
    /\ elapsed' = [elapsed EXCEPT ![k] = @ + 1]
    /\ UNCHANGED <<queueVars, limit, dbSteps, callers, reader, proc, events, http, owners, hook, clock, call, poller, auth, agent, ws>>

\* -------------------------------------------------------------- HTTP routes
\* What the route actions leave alone besides http and the queue.
httpOthers ==
    <<browser, faults, limit, dbSteps, callers, reader, proc, elapsed, events,
      clock, call, poller, auth, agent, ws>>

\* Express receives a request and starts the chain of its route.
Receive(route, id, prompt, allowed, authorization) ==
    /\ proc = "running"
    /\ http.chain = <<>>
    /\ http' = [NoRequest EXCEPT !.route = route, !.id = id, !.prompt = prompt,
                                 !.allowed = allowed,
                                 !.authorization = authorization,
                                 !.chain = RouteChain(route),
                                 !.missionsAtCall = Len(missions),
                                 !.jobsAtCall = Len(jobs)]
    /\ UNCHANGED <<queueVars, owners, hook, httpOthers>>

AtMiddleware(name) ==
    /\ proc = "running"
    /\ http.chain # <<>>
    /\ Head(http.chain) = name

RequireAuthAnyScheme ==
    /\ AtMiddleware("requireAuth")
    /\ LET authHeader == http.authorization
           payload == VerifyAccessToken(Substring(authHeader, 7))
       IN http' = IF authHeader = <<>>
                  THEN EndChain(Respond(http, 401, "error"))
                  ELSE IF payload = Throws
                  THEN EndChain(Respond(http, 401, "error"))
                  ELSE CallNext([http EXCEPT !.user = payload])
    /\ UNCHANGED <<queueVars, owners, hook, httpOthers>>

\* requireAuth(req, res, next)
RequireAuth ==
    /\ AtMiddleware("requireAuth")
    /\ LET authHeader == http.authorization
           payload == VerifyAccessToken(Substring(authHeader, 7))
       IN http' = IF authHeader = <<>> \/ ~StartsWith(authHeader, Bearer)
                  THEN EndChain(Respond(http, 401, "error"))
                  ELSE IF payload = Throws
                  THEN EndChain(Respond(http, 401, "error"))
                  ELSE CallNext([http EXCEPT !.user = payload])
    /\ UNCHANGED <<queueVars, owners, hook, httpOthers>>

\* requireRole(...allowedRoles)(req, res, next)
RequireRole ==
    /\ AtMiddleware("requireRole")
    /\ http' = IF http.user = NoUser
               THEN EndChain(Respond(http, 401, "error"))
               ELSE IF http.user.role \notin http.allowed
               THEN EndChain(Respond(http, 403, "error"))
               ELSE CallNext(http)
    /\ UNCHANGED <<queueVars, owners, hook, httpOthers>>

\* The handler behind requireAuth and requireRole.
GuardedHandler ==
    /\ AtMiddleware("handler")
    /\ http.route = "guarded"
    /\ http' = EndChain(Respond([http EXCEPT !.reached = TRUE], 200, "ok"))
    /\ UNCHANGED <<queueVars, owners, hook, httpOthers>>

\* The user an Authorization header identifies: the payload of the valid token
\* it carries after 'Bearer ', NoUser for any other header.
Caller(h) ==
    IF \E t \in AccessTokens : h.authorization = Bearer \o <<t.jwt>>
    THEN (CHOOSE t \in AccessTokens : h.authorization = Bearer \o <<t.jwt>>).payload
    ELSE NoUser

\* POST /missions on behalf of the request's caller: the handler of
\* PostMissions, with its 400 for a missing prompt and its 201.
HttpPostMissions ==
    /\ AtMiddleware("handler")
    /\ http.route = "POST /missions"
    /\ IF ~http.prompt
       THEN /\ http' = EndChain(Respond(http, 400, "error"))
            /\ UNCHANGED <<missions, jobs, wait, addOutcome, owners>>
       ELSE /\ Len(missions) < limit.missions
            /\ missions' = Append(missions, NewMission)
            /\ Enqueue(Len(missions) + 1)
            /\ owners' = Append(owners, Caller(http).userId)
            /\ http' = EndChain(Respond([http EXCEPT !.reached = TRUE],
                                        201, "missionId"))
    /\ UNCHANGED <<hook, httpOthers>>

\* POST /missions when missionQueue.add rejects (Redis cannot be reached):
\* createMission has stored the mission, addMissionToQueue throws, and the
\* catch of the handler answers 500.
HttpPostMissionsAddFails ==
    /\ AtMiddleware("handler")
    /\ http.route = "POST /missions"
    /\ http.prompt
    /\ Len(missions) < limit.missions
    /\ missions' = Append(missions, NewMission)
    /\ owners' = Append(owners, Caller(http).userId)
    /\ addOutcome' = "failed"
    /\ http' = EndChain(Respond([http EXCEPT !.reached = TRUE], 500, "error"))
    /\ UNCHANGED <<jobs, wait, hook, httpOthers>>

\* GET /missions/:id
HttpGetMission ==
    /\ AtMiddleware("handler")
    /\ http.route = "GET /missions/:id"
    /\ http' = IF http.id \notin DOMAIN missions
               THEN EndChain(Respond(http, 404, "error"))
               ELSE EndChain(Respond([http EXCEPT !.reached = TRUE],
                                     200, "mission"))
    /\ UNCHANGED <<queueVars, owners, hook, httpOthers>>

\* Array.prototype.reverse, on the copy slice() made.
Reverse(seq) == [i \in DOMAIN seq |-> seq[Len(seq) + 1 - i]]

\* steps.find((step) => step.screenshotPath)?.screenshotPath, on the steps in
\* the order given: undefined when no step has a path.
FindScreenshotPath(steps) ==
    LET found == {i \in DOMAIN steps : steps[i].screenshotPath # <<>>}
    IN IF found = {} THEN <<>>
       ELSE steps[CHOOSE i \in found : \A j \in found : i <= j].screenshotPath

\* The search without reverse(): the first step that has a path.
LatestScreenshotOldest(steps) ==
    LET latestScreenshot == FindScreenshotPath(steps)
    IN IF latestScreenshot # <<>>
          THEN <<"/screenshots/">> \o latestScreenshot
          ELSE <<>>

\* The latestScreenshot of the stream response.
LatestScreenshot(steps) ==
    LET latestScreenshot == FindScreenshotPath(Reverse(steps))
    IN IF latestScreenshot # <<>>
          THEN <<"/screenshots/">> \o latestScreenshot
          ELSE <<>>

\* GET /missions/:id/stream
HttpGetMissionStream ==
    /\ AtMiddleware("handler")
    /\ http.route = "GET /missions/:id/stream"
    /\ http' = IF http.id \notin DOMAIN missions
               THEN EndChain(Respond(http, 404, "error"))
               ELSE EndChain(Respond(
                        [http EXCEPT !.reached = TRUE,
                                     !.latestScreenshot =
                                         LatestScreenshot(missions[http.id].steps)],
                        200, "mission"))
    /\ UNCHANGED <<queueVars, owners, hook, httpOthers>>

\* No route matches: Express's final handler answers 404.
FinalHandler ==
    /\ AtMiddleware("finalhandler")
    /\ http' = EndChain(Respond(http, 404, "error"))
    /\ UNCHANGED <<queueVars, owners, hook, httpOthers>>

\* ----------------------------------------------------- useMission (actions)
hookOthers ==
    <<queueVars, limit, dbSteps, callers, reader, proc, elapsed, events, http,
      owners, clock, call, poller, auth, agent, ws>>

\* The third effect: a COMPLETED or FAILED mission clears the interval.
StatusEffect(h) ==
    IF h.status \in {"COMPLETED", "FAILED"} THEN [h EXCEPT !.polling = FALSE] ELSE h

\* The component renders with a new missionId.  The effects that depend on it
\* are cleaned up and run again, in the order they are declared: the socket
\* cleanup disconnects the old socket (a connected socket delivers
\* 'disconnect' with reason 'io client disconnect' to the handler), the
\* polling cleanup clears the interval; then the socket effect creates a
\* socket or, without a token in localStorage, turns the fallback on, the
\* polling effect starts the interval if the fallback is on, and the status
\* effect runs on the mission the hook still holds.
UseMission(id, token) ==
    /\ id # hook.missionId
    /\ LET afterCleanup ==
               [hook EXCEPT !.usePollingFallback = @ \/ hook.socket = "connected",
                            !.socket = "none", !.polling = FALSE]
           afterSocketEffect ==
               IF token
               THEN [afterCleanup EXCEPT !.socket = "connecting"]
               ELSE [afterCleanup EXCEPT !.usePollingFallback = TRUE]
           afterPollingEffect ==
               IF afterSocketEffect.usePollingFallback
               THEN [afterSocketEffect EXCEPT !.polling = TRUE, !.fetching = TRUE]
               ELSE afterSocketEffect
       IN hook' = StatusEffect([afterPollingEffect EXCEPT !.missionId = id])
    /\ UNCHANGED hookOthers

\* socket.on('connect'), also delivered when the socket reconnects.
OnConnect ==
    /\ hook.socket \in {"connecting", "error"}
    /\ hook' = [hook EXCEPT !.socket = "connected", !.usePollingFallback = FALSE,
                            !.fetching = TRUE]
    /\ UNCHANGED hookOthers

\* socket.on('connect_error'); the socket keeps trying to connect.
OnConnectError ==
    /\ hook.socket \in {"connecting", "error"}
    /\ hook' = [hook EXCEPT !.socket = "error", !.usePollingFallback = TRUE]
    /\ UNCHANGED hookOthers

\* socket.on('disconnect', reason): after a disconnect by the server the
\* socket stays closed, after a lost transport it reconnects by itself.
OnDisconnect(reason) ==
    /\ hook.socket = "connected"
    /\ hook' = IF reason = "io server disconnect"
               THEN [hook EXCEPT !.socket = "closed", !.usePollingFallback = TRUE]
               ELSE [hook EXCEPT !.socket = "connecting"]
    /\ UNCHANGED hookOthers

\* socket.on('reconnect_failed'): the reconnection attempts are used up.
OnReconnectFailed ==
    /\ hook.socket = "error"
    /\ hook' = [hook EXCEPT !.socket = "failed", !.usePollingFallback = TRUE]
    /\ UNCHANGED hookOthers

\* The interval fires: fetchMissionStream().
PollTick ==
    /\ hook.polling
    /\ hook' = [hook EXCEPT !.fetching = TRUE]
    /\ UNCHANGED hookOthers

\* fetchMissionStream's response arrives: setMission(response.mission); the
\* render that follows runs the status effect when the status changed.
Fetched(status) ==
    /\ hook.fetching
    /\ hook' = StatusEffect([hook EXCEPT !.fetching = FALSE, !.status = status])
    /\ UNCHANGED hookOthers

\* ------------------------------------------- useMission, polling only (actions)
pollerOthers ==
    <<queueVars, limit, dbSteps, callers, reader, proc, elapsed, events, http,
      owners, hook, clock, call, auth, agent, ws>>

\* The effect on [mission?.status]: for a COMPLETED or FAILED mission its
\* body holds comments only, so it leaves the interval as it is.
PollingStatusEffect(p) == p

\* The component renders with a new missionId: the cleanup of the polling
\* effect clears the interval, the effect fetches once and sets the interval
\* again.  The mission the hook holds stays.
UsePolling(id) ==
    /\ id # poller.missionId
    /\ poller' = PollingStatusEffect([poller EXCEPT !.missionId = id,
                                                    !.interval = TRUE,
                                                    !.fetching = id])
    /\ UNCHANGED pollerOthers

\* The interval fires after 2000 ms: fetchMissionStream().
PollingTick ==
    /\ poller.interval
    /\ poller.polls < MaxPolls
    /\ poller' = [poller EXCEPT !.fetching = poller.missionId, !.polls = @ + 1]
    /\ UNCHANGED pollerOthers

\* fetchMissionStream's response arrives: setMission(response.mission); the
\* render that follows runs the effect on the status.
PollingFetched(status) ==
    /\ poller.fetching # 0
    /\ poller' = PollingStatusEffect([poller EXCEPT !.fetching = 0,
                                                    !.status = status,
                                                    !.statusOf = poller.fetching])
    /\ UNCHANGED pollerOthers

\* ------------------------------------------- AuthService.refreshAccessToken
refreshOthers ==
    <<queueVars, limit, dbSteps, callers, reader, proc, elapsed, events, http,
      owners, hook, clock, call, poller, agent, ws>>

RefreshAt(c, pc) == auth.calls[c].pc = pc

\* The check of the stored token: absent, revoked or expired is an error.
\* (Every token of the table is signed by the service and not yet expired.)
StoredTokenUsable(tokens, t) == t \in DOMAIN tokens /\ ~tokens[t].revoked

\* refreshAccessToken(refreshToken) up to the answer of
\* prisma.refreshToken.findUnique: jwt.verify passes, and a token that is
\* not stored or is revoked ends the call with 'Invalid refresh token'.
RefreshFindToken(c, t) ==
    /\ auth.calls[c].pc \in {"idle", "returned", "failed"}
    /\ t \in DOMAIN auth.tokens
    /\ auth' = [auth EXCEPT !.calls[c] =
                   [pc |-> IF StoredTokenUsable(auth.tokens, t)
                           THEN "findUser" ELSE "failed",
                    token |-> t]]
    /\ UNCHANGED refreshOthers

\* prisma.user.findUnique answers with the active user of the payload.
RefreshFindUser(c) ==
    /\ RefreshAt(c, "findUser")
    /\ auth' = [auth EXCEPT !.calls[c].pc = "revoke"]
    /\ UNCHANGED refreshOthers

\* revokeRefreshToken: prisma.refreshToken.update sets revokedAt, whatever
\* the row held before.
RevokeRefreshToken(c) ==
    /\ RefreshAt(c, "revoke")
    /\ auth' = [auth EXCEPT !.calls[c].pc = "generate",
                            !.tokens[auth.calls[c].token].revoked = TRUE]
    /\ UNCHANGED refreshOthers

\* generateTokens signs a new pair and stores the new refresh token; the
\* call returns the pair.
GenerateTokens(c) ==
    /\ RefreshAt(c, "generate")
    /\ Len(auth.tokens) < MaxRefreshTokens
    /\ auth' = [auth EXCEPT !.calls[c].pc = "returned",
                            !.tokens = Append([@ EXCEPT ![auth.calls[c].token].granted
                                                           = @ + 1],
                                              NewRefreshToken)]
    /\ UNCHANGED refreshOthers

\* ------------------------------------------------ MissionService, called directly
serviceOthers ==
    <<jobs, wait, browser, addOutcome, faults, limit, dbSteps, callers, reader,
      proc, elapsed, events, http, owners, hook, clock, poller, auth, agent, ws>>

\* createMission(prompt)
CreateMission ==
    /\ Len(missions) < limit.missions
    /\ missions' = Append(missions, NewMission)
    /\ call' = [op |-> "createMission", id |-> Len(missions) + 1,
                outcome |-> "returned"]
    /\ UNCHANGED serviceOthers

\* getMission(id): the mission, or undefined.
CallGetMission(id) ==
    /\ call' = [op |-> "getMission", id |-> id,
                outcome |-> IF MissionFound(missions, id)
                               THEN "returned" ELSE "undefined"]
    /\ UNCHANGED <<missions, serviceOthers>>

\* addStep(id, ...)
CallAddStep(id) ==
    /\ MissionFound(missions, id) => Len(missions[id].steps) < ServiceSteps
    /\ call' = [op |-> "addStep", id |-> id,
                outcome |-> WriteOutcome(missions, id)]
    /\ missions' = IF MissionFound(missions, id)
                      THEN AddStep(missions, id, Step("OBSERVATION", "step"))
                      ELSE missions
    /\ UNCHANGED serviceOthers

\* updateStatus(id, status)
CallUpdateStatus(id, status) ==
    /\ call' = [op |-> "updateStatus", id |-> id,
                outcome |-> WriteOutcome(missions, id)]
    /\ missions' = IF MissionFound(missions, id)
                      THEN UpdateStatus(missions, id, status)
                      ELSE missions
    /\ UNCHANGED serviceOthers

\* setRCASummary(id, summary)
CallSetRCASummary(id) ==
    /\ call' = [op |-> "setRCASummary", id |-> id,
                outcome |-> WriteOutcome(missions, id)]
    /\ missions' = IF MissionFound(missions, id)
                      THEN SetRCASummary(missions, id)
                      ELSE missions
    /\ UNCHANGED serviceOthers

\* setRemediationProposal(id, proposal)
CallSetRemediationProposal(id) ==
    /\ call' = [op |-> "setRemediationProposal", id |-> id,
                outcome |-> WriteOutcome(missions, id)]
    /\ missions' = IF MissionFound(missions, id)
                      THEN SetRemediationProposal(missions, id)
                      ELSE missions
    /\ UNCHANGED serviceOthers

\* ------------------------------------------ BrowserAgent, called directly
\* executeMission with its six stages taken as one step.
agentOthers ==
    <<jobs, wait, browser, addOutcome, faults, limit, dbSteps, callers, reader,
      proc, elapsed, events, http, owners, hook, clock, call, poller, auth, ws>>

ExecAt(c, pc) == agent.runs[c].pc = pc

\* executeMission(missionId, prompt) up to 'await this.browser.newPage()'.
ExecStart(c, id) ==
    /\ agent.runs[c].pc \in {"idle", "returned", "threw"}
    /\ agent' = [agent EXCEPT !.runs[c] = [AgentIdle EXCEPT !.pc = "newPage",
                                                           !.id = id]]
    /\ UNCHANGED <<missions, agentOthers>>

\* browser.newPage() resolves and the try block starts with
\* updateStatus(missionId, 'RUNNING').  For a mission the store does not hold
\* it throws, the updateStatus(missionId, 'FAILED') of the catch throws as
\* well, and the call goes on to its finally with that error.
ExecNewPage(c) ==
    /\ ExecAt(c, "newPage")
    /\ agent.opened < MaxPages
    /\ LET id == agent.runs[c].id
           page == agent.opened + 1
           found == MissionFound(missions, id)
       IN /\ agent' = [agent EXCEPT !.opened = page,
                                    !.open = @ \cup {page},
                                    !.runs[c].page = page,
                                    !.runs[c].pc = IF found THEN "stages" ELSE "close",
                                    !.runs[c].throws = ~found]
          /\ missions' = IF found THEN UpdateStatus(missions, id, "RUNNING")
                         ELSE missions
    /\ UNCHANGED agentOthers

\* browser.newPage() rejects: executeMission throws before its try block.
ExecNewPageFail(c) ==
    /\ ExecAt(c, "newPage")
    /\ agent' = [agent EXCEPT !.runs[c].pc = "threw", !.runs[c].throws = TRUE]
    /\ UNCHANGED <<missions, agentOthers>>

\* The six stages resolve: updateStatus(COMPLETED) and the closing step.
ExecStagesOk(c) ==
    /\ ExecAt(c, "stages")
    /\ missions' = AddStep(UpdateStatus(missions, agent.runs[c].id, "COMPLETED"),
                           agent.runs[c].id, CompletedStep)
    /\ agent' = [agent EXCEPT !.runs[c].pc = "close"]
    /\ UNCHANGED agentOthers

\* A stage throws: the catch calls updateStatus(FAILED) and addStep.
ExecStageFail(c) ==
    /\ ExecAt(c, "stages")
    /\ missions' = AddStep(UpdateStatus(missions, agent.runs[c].id, "FAILED"),
                           agent.runs[c].id, FailureStep)
    /\ agent' = [agent EXCEPT !.runs[c].pc = "close"]
    /\ UNCHANGED agentOthers

\* page.close() placed after the try statement: skipped when an error leaves it.
PageCloseAfterTry(a, c) ==
    IF a.runs[c].throws THEN a ELSE [a EXCEPT !.open = @ \ {a.runs[c].page}]
\* finally { await page.close(); }: runs however the try statement ends.
PageClose(a, c) == [a EXCEPT !.open = @ \ {a.runs[c].page}]

\* The finally block has closed the page; executeMission returns, or throws
\* the error its catch threw.
ExecClose(c) ==
    /\ ExecAt(c, "close")
    /\ agent' = [PageClose(agent, c) EXCEPT
                   !.runs[c].pc = IF agent.runs[c].throws THEN "threw" ELSE "returned"]
    /\ UNCHANGED <<missions, agentOthers>>

\* ----------------------------------------- WebSocketServer (connection events)
wsOthers ==
    <<queueVars, limit, dbSteps, callers, reader, proc, elapsed, events, http,
      owners, hook, clock, call, poller, auth, agent>>

\* if (!userSockets.has(userId)) userSockets.set(userId, new Set());
\* userSockets.get(userId).add(socket.id)
Track(m, userId, id) ==
    [u \in DOMAIN m \cup {userId} |->
        IF u = userId
        THEN (IF u \in DOMAIN m THEN m[u] ELSE {}) \cup {id}
        ELSE m[u]]

\* The disconnect handler without the removal of an emptied set.
UntrackKeepEmpty(m, userId, id) ==
    IF userId \in DOMAIN m THEN [m EXCEPT ![userId] = @ \ {id}] ELSE m
\* The disconnect handler: the id leaves the user's set, and a set left
\* empty is deleted from the map.
Untrack(m, userId, id) ==
    IF userId \notin DOMAIN m
    THEN m
    ELSE IF m[userId] \ {id} = {}
         THEN [u \in DOMAIN m \ {userId} |-> m[u]]
         ELSE [m EXCEPT ![userId] = @ \ {id}]

\* io.on('connection'): a socket whose handshake the middleware accepted for
\* userId; Socket.IO gives it an id no other socket has.
OnConnection(userId) ==
    /\ Len(ws.sockets) < MaxSockets
    /\ LET id == Len(ws.sockets) + 1
       IN ws' = [userSockets |-> Track(ws.userSockets, userId, id),
                 sockets |-> Append(ws.sockets,
                                    [userId |-> userId, connected |-> TRUE])]
    /\ UNCHANGED wsOthers

\* socket.on('disconnect'), delivered once to a connected socket.
OnSocketDisconnect(id) ==
    /\ id \in DOMAIN ws.sockets
    /\ ws.sockets[id].connected
    /\ ws' = [userSockets |-> Untrack(ws.userSockets, ws.sockets[id].userId, id),
              sockets |-> [ws.sockets EXCEPT ![id].connected = FALSE]]
    /\ UNCHANGED wsOthers

\* getConnectedUserCount()
GetConnectedUserCount == Cardinality(DOMAIN ws.userSockets)

\* isUserConnected(userId)
IsUserConnected(userId) ==
    userId \in DOMAIN ws.userSockets /\ Cardinality(ws.userSockets[userId]) > 0

\* ------------------------------------------------------------ specifications
\* The program as wired: POST /missions is the only caller of
\* addMissionToQueue.
Next ==
    \/ PostMissions
    \/ \E k \in Ids :
          \/ MoveToActive(k)
          \/ ProcessorStart(k)
          \/ InitOk(k)
          \/ InitFail(k)
          \/ NewPageOk(k)
          \/ NewPageFail(k)
          \/ StageOk(k)
          \/ StageFail(k)
          \/ FinalStep(k)
          \/ CatchStep(k)
          \/ ClosePage(k)
          \/ MoveToCompleted(k)
          \/ MoveToFailed(k)
          \/ PromoteDelayed(k)

\* Many missions, few failures.
Spec == Init /\ [][Next]_vars

\* The same with addMissionToQueue also called again for enqueued missions.
NextRetry ==
    \/ Next
    \/ \E id \in Ids : AddMissionToQueue(id)

\* Few missions, repeated enqueues, enough failures to exhaust a job's
\* attempts.
SpecRetry == InitRetry /\ [][NextRetry]_vars

\* Few missions and enough failures to exhaust a job's attempts, the route
\* being the only caller of addMissionToQueue.
SpecExhaust == InitRetry /\ [][Next]_vars

\* The steps of job k that the runtime takes by itself once they are due: the
\* worker loop fetching the next job, the continuation of a resolved await,
\* BullMQ settling an attempt, the backoff timer expiring.
Progress(k) ==
    \/ MoveToActive(k)
    \/ ProcessorStart(k)
    \/ InitOk(k)
    \/ NewPageOk(k)
    \/ StageOk(k)
    \/ FinalStep(k)
    \/ CatchStep(k)
    \/ ClosePage(k)
    \/ MoveToCompleted(k)
    \/ MoveToFailed(k)
    \/ PromoteDelayed(k)

\* The worker keeps running and every await of a job is settled: a step of a
\* job that stays possible is eventually taken.
Fairness == \A k \in 1..FairMissions : WF_vars(Progress(k))

InitFair ==
    /\ Start
    /\ limit = [missions |-> FairMissions, faults |-> FairFaults]
    /\ clock = FALSE

\* One mission whose job can use up its attempts, under Fairness.
SpecFair == InitFair /\ [][Next]_vars /\ Fairness

\* The same run with the time delayed jobs wait followed: time passes, and a
\* delayed job is promoted only when its backoff has passed.
InitBackoff ==
    /\ Start
    /\ limit = [missions |-> FairMissions, faults |-> FairFaults]
    /\ clock = TRUE

NextBackoff == Next \/ BackoffTick

SpecBackoff ==
    InitBackoff /\ [][NextBackoff]_vars /\ Fairness /\ WF_vars(BackoffTick)

\* The worker with a client that fetches the stream view at any moment.
NextStream ==
    \/ Next
    \/ \E id \in 1..(FairMissions + 1) :
          Receive("GET /missions/:id/stream", id, FALSE, {}, <<>>)
    \/ HttpGetMissionStream

SpecStream == InitFair /\ [][NextStream]_vars

InitRead ==
    /\ Start
    /\ limit = [missions |-> RetryMissions, faults |-> MaxFaults]
    /\ clock = FALSE

\* The queue with GET /queue/status and GET /queue/job/:jobId being served.
NextRead ==
    \/ Next
    \/ \E id \in JobIds : GetJobDetails(id)
    \/ JobGetState
    \/ GetJobPosition
    \/ GetWaitingCount
    \/ GetActiveCount
    \/ GetCompletedCount
    \/ GetFailedCount
    \/ GetDelayedCount
    \/ ReaderReturn

SpecRead == InitRead /\ [][NextRead]_vars

\* The queue in a process that can be sent SIGTERM / SIGINT.
NextShutdown ==
    \/ Next
    \/ Sigterm

SpecShutdown == InitRead /\ [][NextShutdown]_vars

\* The queue with time passing.
NextClock ==
    \/ Next
    \/ \E k \in Ids : Tick(k)

SpecClock == InitRead /\ [][NextClock]_vars

\* The HTTP surface alone: requests arrive one after the other and run their
\* route's chain; no worker is running.
InitAuth ==
    /\ Start
    /\ limit = [missions |-> AuthMissions, faults |-> 0]
    /\ clock = FALSE

NextAuth ==
    \/ \E a \in Authorizations :
          \/ \E allowed \in SUBSET Roles : Receive("guarded", 0, FALSE, allowed, a)
          \/ \E prompt \in BOOLEAN : Receive("POST /missions", 0, prompt, {}, a)
          \/ \E id \in 1..(AuthMissions + 1) :
                \E route \in {"GET /missions/:id", "DELETE /missions/:id"} :
                    Receive(route, id, FALSE, {}, a)
    \/ RequireAuth
    \/ RequireRole
    \/ GuardedHandler
    \/ HttpPostMissions
    \/ HttpGetMission
    \/ FinalHandler

SpecAuth == InitAuth /\ [][NextAuth]_vars

\* The same requests while Redis may be out of reach.
NextPost == NextAuth \/ HttpPostMissionsAddFails

SpecPost == InitAuth /\ [][NextPost]_vars

\* One useMission hook and the events its socket and its timers deliver.
\* The interval and the responses of the backend arrive; whether the socket
\* ever connects is up to the network.
NextHook ==
    \/ \E id \in 1..HookMissions, token \in BOOLEAN : UseMission(id, token)
    \/ OnConnect
    \/ OnConnectError
    \/ \E reason \in {"io server disconnect", "transport close"} : OnDisconnect(reason)
    \/ OnReconnectFailed
    \/ PollTick
    \/ \E status \in MissionStatuses : Fetched(status)

FairnessHook ==
    /\ WF_vars(PollTick)
    /\ WF_vars(\E status \in MissionStatuses : Fetched(status))

SpecHook == InitAuth /\ [][NextHook]_vars /\ FairnessHook

\* One polling-only useMission hook, its interval and the backend's responses.
NextPolling ==
    \/ \E id \in 1..PollMissions : UsePolling(id)
    \/ PollingTick
    \/ \E status \in MissionStatuses : PollingFetched(status)

SpecPolling == InitAuth /\ [][NextPolling]_vars

\* Concurrent refreshAccessToken calls, each presenting a stored token.
NextRefresh ==
    \E c \in 1..RefreshCalls :
        \/ \E t \in 1..MaxRefreshTokens : RefreshFindToken(c, t)
        \/ RefreshFindUser(c)
        \/ RevokeRefreshToken(c)
        \/ GenerateTokens(c)

SpecRefresh == InitAuth /\ [][NextRefresh]_vars

\* The agent alone: executeMission called for missions of the store and for
\* an id the store does not hold.
InitAgent ==
    /\ Start
    /\ limit = [missions |-> AgentMissions, faults |-> 0]
    /\ clock = FALSE

NextAgent ==
    \/ CreateMission
    \/ \E c \in 1..AgentCalls :
          \/ \E id \in 1..(AgentMissions + 1) : ExecStart(c, id)
          \/ ExecNewPage(c)
          \/ ExecNewPageFail(c)
          \/ ExecStagesOk(c)
          \/ ExecStageFail(c)
          \/ ExecClose(c)

SpecAgent == InitAgent /\ [][NextAgent]_vars

\* The sockets of the WebSocket server connecting and disconnecting.
NextSockets ==
    \/ \E userId \in Users : OnConnection(userId)
    \/ \E id \in 1..MaxSockets : OnSocketDisconnect(id)

SpecSockets == InitAuth /\ [][NextSockets]_vars

\* The mission store alone, its methods called with any id.
InitService ==
    /\ Start
    /\ limit = [missions |-> ServiceMissions, faults |-> 0]
    /\ clock = FALSE

NextService ==
    \/ CreateMission
    \/ \E id \in 1..(ServiceMissions + 1) :
          \/ CallGetMission(id)
          \/ CallAddStep(id)
          \/ \E status \in {"RUNNING", "FAILED"} : CallUpdateStatus(id, status)
          \/ CallSetRCASummary(id)
          \/ CallSetRemediationProposal(id)

SpecService == InitService /\ [][NextService]_vars

\* Concurrent callers of MissionRepository.addStep.
NextRepo ==
    \E c \in 1..RepoCallers :
        \/ \E m \in 1..RepoMissions : RepoFindLast(c, m)
        \/ RepoCreate(c)

SpecRepo == Init /\ [][NextRepo]_vars

\* ------------------------------------------------------------------- claims
Settled == {"completed", "failed"}

MissionOf(k) == missions[jobs[k].id]

ActiveFor(id) == {k \in Active(jobs) : jobs[k].id = id}

\* C1: the number of active jobs (processor invocations in progress) never
\* exceeds the worker's concurrency, however many missions are enqueued.
C1_BoundedConcurrency == Cardinality(Active(jobs)) <= MaxConcurrentMissions

\* Every slot is taken while more enqueued jobs wait.
C1_Witness ==
    /\ Cardinality(Active(jobs)) = MaxConcurrentMissions
    /\ Len(jobs) > MaxConcurrentMissions
    /\ wait # <<>>

\* C2: for every mission id at most one job is active at a time, also after
\* repeated addMissionToQueue calls for the id and across retries.
C2_SingleActivePerMission ==
    \A id \in DOMAIN missions : Cardinality(ActiveFor(id)) <= 1

\* A retried job is active again after addMissionToQueue was called again
\* for an id the queue holds.
C2_Witness ==
    /\ addOutcome = "ignored"
    /\ \E k \in Active(jobs) : jobs[k].attemptsMade >= 1

\* C3: a mission whose status is COMPLETED or FAILED keeps that status in
\* every step.
C3_TerminalFencing ==
    [][\A id \in DOMAIN missions :
          missions[id].status \in Terminal
             => missions'[id].status = missions[id].status]_vars

FailureSteps(id) == SelectSeq(missions[id].steps, LAMBDA st : st = FailureStep)

\* C4: a job whose first run ended in a stage failure settles only as failed,
\* after Attempts runs of executeMission, with attemptsMade = Attempts and the
\* failure step of each run in the log.
C4_RetryExhaustion ==
    \A k \in DOMAIN jobs :
        (jobs[k].failedRun = 1 /\ jobs[k].state \in Settled)
           => /\ jobs[k].state = "failed"
              /\ jobs[k].runs = Attempts
              /\ jobs[k].attemptsMade = Attempts
              /\ Len(FailureSteps(jobs[k].id)) = Attempts

\* C5: when a stage fails in a job's first run, the mission is FAILED at once,
\* executeMission has run exactly once, and the job is never scheduled for
\* another attempt.
C5_FatalShortCircuits ==
    \A k \in DOMAIN jobs :
        jobs[k].failedRun = 1
           => /\ MissionOf(k).status = "FAILED"
              /\ jobs[k].runs = 1
              /\ jobs[k].attemptsMade <= 1
              /\ jobs[k].state \in {"active", "completed"}

\* A job whose first run hit a stage failure has settled.
C5_Witness ==
    \E k \in DOMAIN jobs : jobs[k].failedRun = 1 /\ jobs[k].state \in Settled

\* C6: no step is added to the log of a mission whose status is COMPLETED or
\* FAILED.
C6_NoStepAfterTerminal ==
    [][\A id \in DOMAIN missions :
          missions[id].status \in Terminal
             => missions'[id].steps = missions[id].steps]_vars

\* C7: an addMissionToQueue call for an id whose job has not settled is
\* rejected with an error (and leaves the jobs as they are).
C7_DuplicateRejected ==
    [][\A id \in DOMAIN missions :
          (/\ AddMissionToQueue(id)
           /\ \E k \in DOMAIN jobs :
                 jobs[k].id = id /\ jobs[k].state \notin Settled)
             => addOutcome' = "rejected" /\ jobs' = jobs]_vars

\* C8: the sequence numbers of a mission's rows, in insert order, are 1..n.
C8_SequenceNumbers ==
    \A m \in 1..RepoMissions :
        \A i \in 1..Len(Rows(m)) : Rows(m)[i].sequenceNumber = i

\* C9: a completed job's mission is COMPLETED and a failed job's mission is
\* FAILED.
C9_JobAndMissionAgree ==
    \A k \in DOMAIN jobs :
        /\ jobs[k].state = "completed" => MissionOf(k).status = "COMPLETED"
        /\ jobs[k].state = "failed" => MissionOf(k).status = "FAILED"

\* C10: while a job waits for its next attempt after a failed one, with
\* attempts left, its mission is not FAILED.
C10_FailedOnlyWhenExhausted ==
    \A k \in DOMAIN jobs :
        (/\ jobs[k].state \in {"delayed", "waiting"}
         /\ jobs[k].attemptsMade >= 1
         /\ jobs[k].attemptsMade < Attempts)
           => MissionOf(k).status # "FAILED"

\* The status changes the mission state machine allows.
LegalTransition(s, t) ==
    \/ s = "PENDING" /\ t = "RUNNING"
    \/ s = "RUNNING" /\ t \in {"COMPLETED", "FAILED", "AWAITING_APPROVAL"}
    \/ s = "AWAITING_APPROVAL" /\ t \in {"COMPLETED", "FAILED"}

\* C11: every change of a mission's status is a legal transition: PENDING
\* only to RUNNING, RUNNING only to COMPLETED, FAILED or AWAITING_APPROVAL;
\* any other requested change leaves the status as it is.
C11_LegalTransitions ==
    [][\A id \in DOMAIN missions :
          missions'[id].status # missions[id].status
             => LegalTransition(missions[id].status, missions'[id].status)]_vars

\* C12: attemptsMade never exceeds Attempts; a job whose attempt number
\* Attempts has thrown is failed; a failed or completed job keeps that state
\* (it is never made active again).
C12_BoundedAttempts ==
    [][\A k \in DOMAIN jobs :
          /\ jobs'[k].attemptsMade <= Attempts
          /\ (jobs[k].pc = "rethrown" /\ jobs'[k].attemptsMade = Attempts)
                => jobs'[k].state = "failed"
          /\ jobs[k].state \in Settled => jobs'[k].state = jobs[k].state]_vars

\* One job has failed after Attempts thrown attempts and another has
\* completed, and the worker has since taken further steps.
C12_Witness ==
    /\ \E k \in DOMAIN jobs :
          jobs[k].state = "failed" /\ jobs[k].attemptsMade = Attempts
    /\ \E k \in DOMAIN jobs : jobs[k].state = "completed"

Enqueued(id) == id \in DOMAIN missions /\ JobExists(jobs, id)

MissionAndJobSettled(id) ==
    /\ id \in DOMAIN missions
    /\ missions[id].status \in Terminal
    /\ \E k \in DOMAIN jobs : jobs[k].id = id /\ jobs[k].state \in Settled

\* C13: under Fairness, every mission whose job was enqueued eventually has
\* status COMPLETED or FAILED with its job completed or failed.
C13_EveryMissionSettles ==
    \A id \in Ids : Enqueued(id) ~> MissionAndJobSettled(id)

\* Every mission of the run has settled, one of them after its job used up
\* its attempts.
C13_Witness ==
    /\ Len(missions) = limit.missions
    /\ \A id \in DOMAIN missions : MissionAndJobSettled(id)
    /\ \E k \in DOMAIN jobs : jobs[k].state = "failed"

InWait(w, k) == \E i \in DOMAIN w : w[i] = k

\* C14: an attempt that threw out of the processor is rescheduled (delayed)
\* while attempts remain and fails the job only as attempt number Attempts;
\* a delayed job goes back to the wait list, and no job leaves the queue.
C14_ThrownAttemptsRetried ==
    [][\A k \in DOMAIN jobs :
          /\ k \in DOMAIN jobs' /\ jobs'[k].id = jobs[k].id
          /\ (jobs[k].pc = "rethrown" /\ jobs'[k].pc # "rethrown")
                => jobs'[k].state = IF jobs[k].attemptsMade + 1 < Attempts
                                       THEN "delayed" ELSE "failed"
          /\ jobs'[k].state = "failed" => jobs'[k].runs = Attempts
          /\ jobs[k].state = "delayed" => jobs'[k].state \in {"delayed", "waiting"}
          /\ jobs'[k].state = "waiting" => InWait(wait', k)]_vars

\* A job has failed after Attempts runs that all threw out of the processor.
C14_Witness ==
    \E k \in DOMAIN jobs :
        /\ jobs[k].state = "failed"
        /\ jobs[k].runs = Attempts
        /\ jobs[k].failedRun = 0

\* C15: the step log only grows at its end: after every step of the program
\* each mission's earlier log is a prefix of its log (nothing is removed,
\* moved or overwritten, also when an attempt is retried).
C15_AppendOnly ==
    [][\A id \in DOMAIN missions :
          /\ Len(missions'[id].steps) >= Len(missions[id].steps)
          /\ SubSeq(missions'[id].steps, 1, Len(missions[id].steps))
                = missions[id].steps]_vars

\* A retried attempt has added steps to its mission's log.
C15_Witness ==
    \E k \in DOMAIN jobs :
        /\ jobs[k].attemptsMade >= 1
        /\ jobs[k].state = "active"
        /\ Len(MissionOf(k).steps) >= 2

HasStep(id, step) ==
    \E i \in DOMAIN missions[id].steps : missions[id].steps[i] = step

\* C16: a COMPLETED mission has both rcaSummary and remediationProposal set;
\* each of the two is absent until its stage (performRCA,
\* proposeRemediation) has been started for the mission.
C16_CompletedCarriesAnalysis ==
    \A id \in DOMAIN missions :
        /\ missions[id].status = "COMPLETED"
              => /\ missions[id].rcaSummary # "nil"
                 /\ missions[id].remediationProposal # "nil"
        /\ missions[id].rcaSummary # "nil"
              => HasStep(id, BeginStep("performRCA"))
        /\ missions[id].remediationProposal # "nil"
              => HasStep(id, BeginStep("proposeRemediation"))

\* One mission is COMPLETED while another has its RCA summary and not yet a
\* remediation proposal.
C16_Witness ==
    /\ \E id \in DOMAIN missions : missions[id].status = "COMPLETED"
    /\ \E id \in DOMAIN missions :
          /\ missions[id].rcaSummary # "nil"
          /\ missions[id].remediationProposal = "nil"

\* C17: the result of getJobDetails has a position (never null) when its
\* state is waiting and position null for every other state; for an id no
\* job has the result is not-found.
C17_QueuePosition ==
    (reader.op = "getJobDetails" /\ reader.pc = "done")
       => /\ reader.state = "waiting" => reader.position # NoPosition
          /\ reader.state # "waiting" => reader.position = NoPosition
          /\ ~JobExists(jobs, reader.jobId) => reader.state = "notFound"

\* The counts of a getQueueStatus result, added up.
StatusSum ==
    reader.waiting + reader.active + reader.completed + reader.failed
       + reader.delayed

\* C18: every job is in one of the five states, and a getQueueStatus result
\* has active <= concurrency and counts that add up to the number of jobs
\* the queue held at some moment of the call.
C18_StatusAccountsForJobs ==
    /\ \A k \in DOMAIN jobs :
          jobs[k].state \in {"waiting", "active", "delayed", "completed", "failed"}
    /\ (reader.op = "getQueueStatus" /\ reader.pc = "done")
          => /\ reader.active <= MaxConcurrentMissions
             /\ StatusSum >= reader.jobsAtCall
             /\ StatusSum <= Len(jobs)

\* C19: once shutdown has begun no waiting or delayed job becomes active, and
\* the process has exited only when no job is active any more.
C19_GracefulShutdown ==
    [][/\ proc # "running"
          => \A k \in DOMAIN jobs :
                jobs[k].state \in {"waiting", "delayed"}
                   => jobs'[k].state # "active"
       /\ proc' = "exited" => Active(jobs') = {}]_vars

\* C20: no attempt stays active for longer than config.missionTimeoutMs: a
\* job in its first attempt (all its active time belongs to that attempt)
\* has been active for at most one such span.
C20_ExecutionTimeout ==
    \A k \in DOMAIN jobs :
        (jobs[k].state = "active" /\ jobs[k].attemptsMade = 0)
           => elapsed[k] <= 1

\* The payloads emitted to a mission's room under one event name, in order.
EmittedTo(id, name) ==
    LET evs == SelectSeq(events, LAMBDA e : e.room = id /\ e.name = name)
    IN [i \in DOMAIN evs |-> evs[i].data]

\* C21: once a mission's job has settled (every store call of the run has
\* been made), the mission:step events emitted to the mission's room are the
\* steps of its log, in order, and the last mission:status event is its
\* status.
C21_MissionEventsEmitted ==
    \A k \in DOMAIN jobs :
        jobs[k].state \in Settled
           => /\ EmittedTo(jobs[k].id, "mission:step") = MissionOf(k).steps
              /\ EmittedTo(jobs[k].id, "mission:status") # <<>>
              /\ LET sts == EmittedTo(jobs[k].id, "mission:status")
                 IN sts # <<>> => sts[Len(sts)] = MissionOf(k).status

\* The status codes of the responses a request was sent, in order.
Statuses(h) == [i \in DOMAIN h.sent |-> h.sent[i].status]

\* C22: a handler behind requireAuth and requireRole(allowed) is reached only
\* for a request whose Authorization header is 'Bearer ' followed by a token
\* that verifies and whose role is one of the allowed roles; any other request
\* ends with exactly one response, 401 when the header identifies no user and
\* 403 when the user's role is not allowed, and never reaches the handler.
C22_AuthAndRoleGate ==
    http.route = "guarded" =>
        LET caller == Caller(http)
        IN /\ http.reached => caller # NoUser /\ caller.role \in http.allowed
           /\ http.user # NoUser => http.user = caller
           /\ http.chain = <<>> /\ caller = NoUser
                 => ~http.reached /\ Statuses(http) = <<401>>
           /\ http.chain = <<>> /\ caller # NoUser /\ caller.role \notin http.allowed
                 => ~http.reached /\ Statuses(http) = <<403>>
           /\ http.chain # <<>> => http.sent = <<>>

\* An OPERATOR has reached the handler behind requireRole("ADMIN", "OPERATOR").
C22_Witness ==
    /\ http.route = "guarded"
    /\ http.allowed = {"ADMIN", "OPERATOR"}
    /\ http.chain = <<>>
    /\ Caller(http).role = "OPERATOR"
    /\ http.reached
    /\ Statuses(http) = <<200>>

\* C23: POST /missions from a caller no valid token identifies is answered 401,
\* from a VIEWER 403, and in both cases no mission and no job is added; a
\* mission is only ever created for an OPERATOR or an ADMIN.
C23_CreationAuthorised ==
    http.route = "POST /missions" /\ http.chain = <<>> =>
        LET caller == Caller(http)
            nothingAdded == /\ Len(missions) = http.missionsAtCall
                            /\ Len(jobs) = http.jobsAtCall
        IN /\ caller = NoUser => Statuses(http) = <<401>> /\ nothingAdded
           /\ caller.role = "VIEWER" => Statuses(http) = <<403>> /\ nothingAdded
           /\ ~nothingAdded => caller.role \in {"OPERATOR", "ADMIN"}

\* C24: GET or DELETE /missions/:id for a mission created by another user,
\* from a caller who is not an ADMIN, is answered 403, carries no mission data
\* and deletes nothing.
C24_Ownership ==
    /\ http.route \in {"GET /missions/:id", "DELETE /missions/:id"}
    /\ http.chain = <<>>
    /\ http.id \in DOMAIN missions
    /\ Caller(http) # NoUser
    /\ Caller(http).role # "ADMIN"
    /\ owners[http.id] # Caller(http).userId
    => /\ Statuses(http) = <<403>>
       /\ \A i \in DOMAIN http.sent : http.sent[i].body # "mission"
       /\ Len(missions) = http.missionsAtCall


\* The socket of the hook has failed: connect_error, reconnect_failed or a
\* disconnect by the server was the last thing it delivered.
SocketFailed == hook.socket \in {"error", "failed", "closed"}

HookTerminal == hook.status \in {"COMPLETED", "FAILED"}

\* C25: once the socket of useMission has failed while the mission the hook
\* holds is not COMPLETED or FAILED, the hook eventually polls (unless the
\* socket recovers or the mission ends first); and once the socket is
\* connected a running poll is eventually stopped.
C25_PollingFallback ==
    /\ (SocketFailed /\ ~HookTerminal)
          ~> (hook.polling \/ ~SocketFailed \/ HookTerminal)
    /\ (hook.socket = "connected" /\ hook.polling)
          ~> (~hook.polling \/ hook.socket # "connected")


C27_ExponentialBackoff ==
    /\ [][\A k \in DOMAIN jobs :
             /\ (jobs[k].pc = "rethrown" /\ jobs'[k].pc # "rethrown"
                    /\ jobs[k].attemptsMade + 1 < Attempts)
                   => jobs'[k].state = "delayed"
             /\ (jobs[k].state = "delayed" /\ jobs'[k].state # "delayed")
                   => /\ jobs'[k].state = "waiting"
                      /\ jobs[k].waited >= 2000 * 2^(jobs[k].attemptsMade - 1)
             /\ (jobs[k].state # "active" /\ jobs'[k].state = "active")
                   => jobs[k].state = "waiting"]_vars
    /\ \A k \in 1..FairMissions :
          (k \in DOMAIN jobs /\ jobs[k].state = "delayed"
              /\ jobs[k].waited >= 2000 * 2^(jobs[k].attemptsMade - 1))
             ~> (k \in DOMAIN jobs /\ jobs[k].state = "active")

\* A job is running its third attempt, after a backoff of 2 s and one of 4 s.
C27_Witness ==
    /\ clock
    /\ \E k \in DOMAIN jobs : jobs[k].state = "active" /\ jobs[k].attemptsMade = 2


\* C28: the wait list holds exactly the waiting jobs in the order they became
\* waiting (a job that becomes waiting, new or after its backoff, goes to the
\* back), and the job that becomes active is the one at the front: no job is
\* activated while one that has been waiting longer is still waiting.
C28_FifoAdmission ==
    [][/\ \A k \in DOMAIN jobs : jobs[k].state = "waiting" <=> InWait(wait, k)
       /\ \A i, j \in DOMAIN wait : wait[i] = wait[j] => i = j
       /\ \A k \in DOMAIN jobs' :
             LET was == IF k \in DOMAIN jobs THEN jobs[k].state ELSE "none"
             IN /\ (was # "waiting" /\ jobs'[k].state = "waiting")
                      => wait' = Append(wait, k)
                /\ (was # "active" /\ jobs'[k].state = "active")
                      => /\ wait # <<>>
                         /\ k = Head(wait)
                         /\ wait' = Tail(wait)
                         /\ \A j \in DOMAIN jobs :
                               (j # k /\ jobs[j].state = "waiting")
                                  => \E i \in DOMAIN wait : i > 1 /\ wait[i] = j
       /\ (wait' # wait)
             => \/ wait # <<>> /\ wait' = Tail(wait)
                \/ \E k \in DOMAIN jobs' : wait' = Append(wait, k)]_vars

\* The second job was activated ahead of the first, which had gone to the back
\* of the wait list for its retry.
C28_Witness ==
    /\ Len(jobs) >= 2
    /\ jobs[2].state = "active"
    /\ jobs[2].attemptsMade = 0
    /\ jobs[1].state = "waiting"
    /\ jobs[1].attemptsMade = 1
    /\ wait = <<1>>


\* C29: a step taken for the job of one mission (start, stage, catch, retry,
\* failure) changes no other mission: every mission a step changes is the
\* mission of an active job whose own record the step advances, and whenever
\* an active job's record changes, every mission but its own is left as it
\* was.
C29_CrossMissionIsolation ==
    [][/\ \A id \in DOMAIN missions :
             missions'[id] # missions[id]
                => \E k \in DOMAIN jobs :
                      /\ jobs[k].id = id
                      /\ jobs[k].state = "active"
                      /\ jobs'[k] # jobs[k]
       /\ \A k \in DOMAIN jobs :
             (jobs[k].state = "active" /\ jobs'[k] # jobs[k])
                => \A id \in DOMAIN missions :
                      id # jobs[k].id => missions'[id] = missions[id]]_vars

\* Two jobs are in the middle of their pipelines at once, one of them in its
\* catch, and both missions carry steps.
C29_Witness ==
    \E k, j \in DOMAIN jobs :
        /\ jobs[k].id # jobs[j].id
        /\ jobs[k].state = "active" /\ jobs[k].pc = "catchStep"
        /\ jobs[j].state = "active" /\ jobs[j].pc \in StageSet
        /\ MissionOf(k).status = "FAILED"
        /\ MissionOf(j).status = "RUNNING"
        /\ MissionOf(j).steps # <<>>


\* The position of the last step that has a screenshotPath; 0 when none has.
LastWithScreenshot(steps) ==
    LET shots == {i \in DOMAIN steps : steps[i].screenshotPath # <<>>}
    IN IF shots = {} THEN 0 ELSE Max(shots)

\* The step in which GET /missions/:id/stream answers for an existing mission.
StreamAnswered ==
    /\ http.route = "GET /missions/:id/stream"
    /\ http.chain # <<>>
    /\ http'.chain = <<>>
    /\ http.id \in DOMAIN missions

\* C30 as stated: the stream view returns as latestScreenshot the
\* screenshotPath of the last step of the log that has one, none when no step
\* has one, and leaves the mission as it was.
C30_LatestScreenshotIsPath ==
    [][StreamAnswered
          => LET steps == missions[http.id].steps
                 n == LastWithScreenshot(steps)
             IN /\ http'.latestScreenshot =
                      IF n = 0 THEN <<>> ELSE steps[n].screenshotPath
                /\ missions' = missions]_vars

\* C30, amended: the latestScreenshot of the stream view is '/screenshots/'
\* followed by the screenshotPath of the last step of the log that has one,
\* and absent when no step has one; the view leaves the mission as it was.
C30_LatestScreenshotUrl ==
    [][StreamAnswered
          => LET steps == missions[http.id].steps
                 n == LastWithScreenshot(steps)
             IN /\ http'.latestScreenshot =
                      IF n = 0 THEN <<>>
                      ELSE <<"/screenshots/">> \o steps[n].screenshotPath
                /\ missions' = missions]_vars

\* The view was fetched after the logs screenshot and further steps without
\* one: it answered with the logs file, not the dashboard's.
C30_Witness ==
    /\ http.route = "GET /missions/:id/stream"
    /\ http.chain = <<>>
    /\ http.id \in DOMAIN missions
    /\ http.latestScreenshot = <<"/screenshots/", "logs">>
    /\ LET steps == missions[http.id].steps
       IN /\ steps # <<>>
          /\ steps[Len(steps)].screenshotPath = <<>>
          /\ LastWithScreenshot(steps) > 0
          /\ steps[LastWithScreenshot(steps)].screenshotPath = <<"logs">>


\* C31: a call of addStep, updateStatus, setRCASummary or
\* setRemediationProposal with an id the store does not hold ends with the
\* mission-not-found error and leaves the store as it was, and getMission
\* with such an id returns no mission; calls with a stored id do not fail.
C31_UnknownMission ==
    [][LET known == call'.id \in DOMAIN missions
       IN /\ (call'.op \in {"addStep", "updateStatus", "setRCASummary",
                            "setRemediationProposal"} /\ ~known)
                => call'.outcome = "notFound" /\ missions' = missions
          /\ (call'.op = "getMission" /\ ~known)
                => call'.outcome = "undefined" /\ missions' = missions
          /\ (call'.op \notin {"none", "createMission"} /\ known)
                => call'.outcome = "returned"]_vars

\* updateStatus was called with an id next to the one stored mission, and
\* failed.
C31_Witness ==
    /\ Len(missions) = ServiceMissions
    /\ call.op = "updateStatus"
    /\ call.id = Len(missions) + 1
    /\ call.outcome = "notFound"
    /\ missions[1].steps # <<>>

\* C32: once useMission has observed status COMPLETED or FAILED for its
\* mission, the interval issues no further fetch of the mission stream.
C32_PollingStops ==
    [][(poller.status \in {"COMPLETED", "FAILED"} /\ poller.statusOf = poller.missionId
        /\ poller'.missionId = poller.missionId)
          => poller'.polls = poller.polls]_vars

\* C33: every mission of the store with status PENDING has a job in the
\* queue; when POST /missions answers with an error because
\* addMissionToQueue failed, the request leaves no mission in the store.
C33_NoOrphanPending ==
    /\ \A id \in DOMAIN missions :
          missions[id].status = "PENDING" => JobExists(jobs, id)
    /\ (http.route = "POST /missions" /\ http.chain = <<>>
           /\ Statuses(http) = <<500>>)
          => Len(missions) = http.missionsAtCall

\* C34: at most one refreshAccessToken call returns new tokens for a given
\* refresh token, the token is revoked once a call has returned tokens for
\* it, and a call that presents it after that fails.
C34_RefreshSingleUse ==
    [][/\ \A t \in DOMAIN auth'.tokens :
             /\ auth'.tokens[t].granted <= 1
             /\ auth'.tokens[t].granted = 1 => auth'.tokens[t].revoked
       /\ \A c \in 1..RefreshCalls :
             (auth'.calls[c] # auth.calls[c] /\ auth.calls[c].pc # "findUser"
                /\ auth'.calls[c].pc = "findUser")
                => auth.tokens[auth'.calls[c].token].granted = 0]_vars

\* C35: however concurrent executeMission calls interleave, init launches no
\* browser while the agent holds a live one: a chromium.launch resolves only
\* into an agent without a browser, so no launched browser loses its only
\* reference.
C35_SingleBrowser ==
    [][\A k \in DOMAIN jobs :
          (jobs[k].pc = "init" /\ jobs'[k].pc = "newPage") => ~browser]_vars

\* The executeMission calls that have started and not yet returned or thrown.
RunningCalls == {c \in 1..AgentCalls : agent.runs[c].pc \in {"newPage", "stages", "close"}}

\* C36: the page an executeMission call opened is closed when the call has
\* returned or thrown (after success, after a stage failure and after a
\* catch that threw); every open page belongs to a running call, so there
\* are never more open pages than running calls.
C36_PagesReleased ==
    /\ \A c \in 1..AgentCalls :
          agent.runs[c].pc \in {"returned", "threw"} => agent.runs[c].page \notin agent.open
    /\ \A p \in agent.open : \E c \in RunningCalls : agent.runs[c].page = p
    /\ Cardinality(agent.open) <= Cardinality(RunningCalls)

\* A call whose catch threw has left with its page closed while another call
\* is in its stages with its page open.
C36_Witness ==
    \E c, d \in 1..AgentCalls :
        /\ agent.runs[c].pc = "threw"
        /\ agent.runs[c].page # 0
        /\ agent.runs[c].page \notin agent.open
        /\ agent.runs[d].pc = "stages"
        /\ agent.open = {agent.runs[d].page}

\* The ids of the connected sockets of a user.
ConnectedSockets(userId) ==
    {id \in DOMAIN ws.sockets :
        ws.sockets[id].userId = userId /\ ws.sockets[id].connected}

ConnectedUsers == {u \in Users : ConnectedSockets(u) # {}}

\* C37: userSockets has exactly the users with a connected socket as keys,
\* each mapped to the ids of that user's connected sockets (never an empty
\* set); isUserConnected(u) holds exactly for those users and
\* getConnectedUserCount is their number.
C37_ConnectedUserTracking ==
    /\ DOMAIN ws.userSockets = ConnectedUsers
    /\ \A u \in DOMAIN ws.userSockets :
          ws.userSockets[u] = ConnectedSockets(u) /\ ws.userSockets[u] # {}
    /\ \A u \in Users : IsUserConnected(u) <=> ConnectedSockets(u) # {}
    /\ GetConnectedUserCount = Cardinality(ConnectedUsers)

\* One user has two sockets connected; the other user's only socket has
\* disconnected and the user is no longer tracked.
C37_Witness ==
    \E u, v \in Users :
        /\ u # v
        /\ Cardinality(ConnectedSockets(u)) = 2
        /\ \E id \in DOMAIN ws.sockets :
              ws.sockets[id].userId = v /\ ~ws.sockets[id].connected
        /\ ConnectedSockets(v) = {}
        /\ DOMAIN ws.userSockets = {u}

====
